---------------------------- MODULE Spec2Model ----------------------------
(***************************************************************************)
(* A model of rust/src/api/simple.rs: greet, calculate_fibonacci and       *)
(* add_numbers, called by independent callers.                             *)
(*                                                                         *)
(* Fixed-width integers are kept at their width.  A u64 or i64 is a tuple  *)
(* of four 16-bit limbs, least significant first, so that every value of   *)
(* the model stays inside 32-bit integers.  Exact (unbounded)              *)
(* naturals, used only to state what the functions should return, are limb *)
(* sequences of any length without a most significant zero limb.           *)
(*                                                                         *)
(* The `+` of the source is Rust's: with overflow checks compiled in (the  *)
(* default of the dev profile) an overflowing addition panics, without     *)
(* them (the default of the release profile) it wraps.  The profile is not *)
(* fixed by the source, so the build is chosen in Init.                    *)
(***************************************************************************)
EXTENDS Integers, Sequences, FiniteSets, TLC

VARIABLES
    overflow_checks,  \* the build: TRUE when `+` panics on overflow
    pc,               \* per caller: "idle", "loop", "done" or "panicked"
    call,             \* per caller: the call in progress, [op, n, x, y, name]
    a,                \* per caller: calculate_fibonacci's `a`
    b,                \* per caller: calculate_fibonacci's `b`
    range,            \* per caller: the iterator of `2..=n`
    iters,            \* per caller: loop bodies entered by this call
    ovf,              \* per caller: the loop value at the first overflowing `a + b`, 0 if none
    ret,              \* per caller: the returned value
    hist              \* the <<call, outcome>> pairs of the finished calls that were recorded

vars == <<overflow_checks, pc, call, a, b, range, iters, ovf, ret, hist>>

---------------------------------------------------------------------------
(* Bounds *)

\* The index type of calculate_fibonacci is u32; the model narrows it to
\* IndexBits bits so that a run with the largest index of the type is finite.
IndexBits == 7

\* Names passed to greet have at most MaxNameLen characters of Alphabet.
MaxNameLen == 2

\* The number of callers that run concurrently under SpecConc.
NumCallers == 2

\* The largest index a concurrent caller passes to calculate_fibonacci.
MaxConcIndex == 5

---------------------------------------------------------------------------
(* Fixed-width arithmetic on limbs *)

\* The width of u64 and of i64.
U64Bits == 64

\* A limb holds 16 bits.
LimbBase == 256 * 256
U64Limbs == U64Bits \div 16
HalfLimb == LimbBase \div 2

MaxIndex == 2 ^ IndexBits - 1

RECURSIVE AddLimbsNoCarry(_, _, _, _)
\* AddLimbs with the carry between limbs lost.
AddLimbsNoCarry(x, y, k, carry) ==
    IF k > Len(x) THEN <<carry>>
    ELSE <<(x[k] + y[k]) % LimbBase>> \o AddLimbsNoCarry(x, y, k + 1, 0)

RECURSIVE AddLimbs(_, _, _, _)
\* The limbs k.. of x + y + carry for two values of equal length, followed
\* by the carry out of the most significant limb.
AddLimbs(x, y, k, carry) ==
    IF k > Len(x) THEN <<carry>>
    ELSE LET s == x[k] + y[k] + carry
         IN  <<s % LimbBase>> \o AddLimbs(x, y, k + 1, s \div LimbBase)

\* OverflowingAddU64 with the overflow taken from bit 63, as for a signed sum.
OverflowingAddU64Signed(x, y) ==
    LET s == AddLimbs(x, y, 1, 0)
    IN  [val |-> SubSeq(s, 1, U64Limbs), overflow |-> s[U64Limbs] >= HalfLimb]

\* u64::overflowing_add: the wrapped sum and whether the true sum did not fit.
OverflowingAddU64(x, y) ==
    LET s == AddLimbs(x, y, 1, 0)
    IN  [val |-> SubSeq(s, 1, U64Limbs), overflow |-> s[U64Limbs + 1] = 1]

\* AddU64 as u64::saturating_add.
AddU64Saturating(x, y, checks) ==
    LET r == OverflowingAddU64(x, y)
    IN  [val |-> IF r.overflow THEN [k \in 1 .. U64Limbs |-> LimbBase - 1] ELSE r.val,
         panic |-> FALSE, overflow |-> r.overflow]

\* `x + y` on u64 as the build compiles it.
AddU64(x, y, checks) ==
    LET r == OverflowingAddU64(x, y)
    IN  [val |-> r.val, panic |-> checks /\ r.overflow, overflow |-> r.overflow]

\* The u64 of a small natural k < LimbBase^2.
U64(k) == <<k % LimbBase, k \div LimbBase, 0, 0>>

---------------------------------------------------------------------------
(* The iterator of `2..=n` (core::ops::RangeInclusive<u32>) *)

\* RangeNew as `1..=n`.
RangeNewFromOne(n) == [start |-> 1, end |-> n, exhausted |-> FALSE]

\* `2..=n`
RangeNew(n) == [start |-> 2, end |-> n, exhausted |-> FALSE]

\* RangeInclusive::is_empty
RangeIsEmpty(r) == r.exhausted \/ r.start > r.end

\* RangeNext as the counter of `i = 2; while i <= n { i += 1 }`.
RangeNextNaive(r) ==
    [item |-> r.start, rest |-> [r EXCEPT !.start = (r.start + 1) % (MaxIndex + 1)]]

\* RangeInclusive::next on a range that is not empty: the value yielded and
\* the range left.  The counter moves only while it is below `end`; at
\* `end` the range is marked exhausted and the counter stays.
RangeNext(r) ==
    IF r.start < r.end
    THEN [item |-> r.start, rest |-> [r EXCEPT !.start = (r.start + 1) % (MaxIndex + 1)]]
    ELSE [item |-> r.start, rest |-> [r EXCEPT !.exhausted = TRUE]]

---------------------------------------------------------------------------
(* Callers and their frames *)

Callers == 1 .. NumCallers

NoCall == [op |-> "none", n |-> 0, x |-> <<>>, y |-> <<>>, name |-> <<>>]
FibCall(n) == [op |-> "fib", n |-> n, x |-> <<>>, y |-> <<>>, name |-> <<>>]
AddCall(x, y) == [op |-> "add", n |-> 0, x |-> x, y |-> y, name |-> <<>>]
GreetCall(name) == [op |-> "greet", n |-> 0, x |-> <<>>, y |-> <<>>, name |-> name]

NoRange == [start |-> 0, end |-> 0, exhausted |-> TRUE]

Init ==
    /\ overflow_checks \in BOOLEAN
    /\ pc = [c \in Callers |-> "idle"]
    /\ call = [c \in Callers |-> NoCall]
    /\ a = [c \in Callers |-> <<>>]
    /\ b = [c \in Callers |-> <<>>]
    /\ range = [c \in Callers |-> NoRange]
    /\ iters = [c \in Callers |-> 0]
    /\ ovf = [c \in Callers |-> 0]
    /\ ret = [c \in Callers |-> <<>>]
    /\ hist = {}

---------------------------------------------------------------------------
(* calculate_fibonacci *)

\* CallFib with the pair started at (1, 1).
CallFibStartOnes(c, n) ==
    /\ pc[c] = "idle"
    /\ call' = [call EXCEPT ![c] = FibCall(n)]
    /\ iters' = [iters EXCEPT ![c] = 0]
    /\ ovf' = [ovf EXCEPT ![c] = 0]
    /\ IF n = 0 \/ n = 1
       THEN /\ pc' = [pc EXCEPT ![c] = "done"]
            /\ ret' = [ret EXCEPT ![c] = U64(n)]
            /\ UNCHANGED <<a, b, range>>
       ELSE /\ pc' = [pc EXCEPT ![c] = "loop"]
            /\ a' = [a EXCEPT ![c] = U64(1)]
            /\ b' = [b EXCEPT ![c] = U64(1)]
            /\ range' = [range EXCEPT ![c] = RangeNew(n)]
            /\ UNCHANGED ret
    /\ UNCHANGED <<overflow_checks, hist>>

\* Lines 8-13: the match on n; the arms 0 and 1 return at once, the last
\* arm initialises a, b and the range.
CallFib(c, n) ==
    /\ pc[c] = "idle"
    /\ call' = [call EXCEPT ![c] = FibCall(n)]
    /\ iters' = [iters EXCEPT ![c] = 0]
    /\ ovf' = [ovf EXCEPT ![c] = 0]
    /\ IF n = 0 \/ n = 1
       THEN /\ pc' = [pc EXCEPT ![c] = "done"]
            /\ ret' = [ret EXCEPT ![c] = U64(n)]
            /\ UNCHANGED <<a, b, range>>
       ELSE /\ pc' = [pc EXCEPT ![c] = "loop"]
            /\ a' = [a EXCEPT ![c] = U64(0)]
            /\ b' = [b EXCEPT ![c] = U64(1)]
            /\ range' = [range EXCEPT ![c] = RangeNew(n)]
            /\ UNCHANGED ret
    /\ UNCHANGED <<overflow_checks, hist>>

\* FibIter with a and b shared by the invocations that are in their loops.
FibIterShared(c) ==
    /\ pc[c] = "loop"
    /\ ~RangeIsEmpty(range[c])
    /\ LET nx == RangeNext(range[c])
           temp == AddU64(a[c], b[c], overflow_checks)
       IN  /\ range' = [range EXCEPT ![c] = nx.rest]
           /\ iters' = [iters EXCEPT ![c] = @ + 1]
           /\ ovf' = [ovf EXCEPT ![c] = IF @ = 0 /\ temp.overflow THEN nx.item ELSE @]
           /\ IF temp.panic
              THEN /\ pc' = [pc EXCEPT ![c] = "panicked"]
                   /\ UNCHANGED <<a, b>>
              ELSE /\ a' = [d \in Callers |-> IF pc[d] = "loop" THEN b[c] ELSE a[d]]
                   /\ b' = [d \in Callers |-> IF pc[d] = "loop" THEN temp.val ELSE b[d]]
                   /\ UNCHANGED pc
    /\ UNCHANGED <<overflow_checks, call, ret, hist>>

\* Lines 14-18: one iteration of the loop, the range yielding a value.
FibIter(c) ==
    /\ pc[c] = "loop"
    /\ ~RangeIsEmpty(range[c])
    /\ LET nx == RangeNext(range[c])
           temp == AddU64(a[c], b[c], overflow_checks)
       IN  /\ range' = [range EXCEPT ![c] = nx.rest]
           /\ iters' = [iters EXCEPT ![c] = @ + 1]
           /\ ovf' = [ovf EXCEPT ![c] = IF @ = 0 /\ temp.overflow THEN nx.item ELSE @]
           /\ IF temp.panic
              THEN /\ pc' = [pc EXCEPT ![c] = "panicked"]
                   /\ UNCHANGED <<a, b>>
              ELSE /\ a' = [a EXCEPT ![c] = b[c]]
                   /\ b' = [b EXCEPT ![c] = temp.val]
                   /\ UNCHANGED pc
    /\ UNCHANGED <<overflow_checks, call, ret, hist>>

\* Lines 14 and 19: the range yields nothing more, the loop ends and b is
\* the value of the block.
FibExit(c) ==
    /\ pc[c] = "loop"
    /\ RangeIsEmpty(range[c])
    /\ pc' = [pc EXCEPT ![c] = "done"]
    /\ ret' = [ret EXCEPT ![c] = b[c]]
    /\ UNCHANGED <<overflow_checks, call, a, b, range, iters, ovf, hist>>

\* The outcome of a finished call as its caller sees it.
Outcome(c) == [panicked |-> pc[c] = "panicked", val |-> ret[c]]

\* The call is over: its frame is dropped.  With `record` the finished call
\* and its outcome are added to hist.
Return(c, record) ==
    /\ pc[c] \in {"done", "panicked"}
    /\ hist' = IF record THEN hist \cup {<<call[c], Outcome(c)>>} ELSE hist
    /\ pc' = [pc EXCEPT ![c] = "idle"]
    /\ call' = [call EXCEPT ![c] = NoCall]
    /\ a' = [a EXCEPT ![c] = <<>>]
    /\ b' = [b EXCEPT ![c] = <<>>]
    /\ range' = [range EXCEPT ![c] = NoRange]
    /\ iters' = [iters EXCEPT ![c] = 0]
    /\ ovf' = [ovf EXCEPT ![c] = 0]
    /\ ret' = [ret EXCEPT ![c] = <<>>]
    /\ UNCHANGED overflow_checks

---------------------------------------------------------------------------
(* add_numbers *)

\* The sign bit of an i64 bit pattern.
IsNegative(x) == x[U64Limbs] >= HalfLimb

\* i64::overflowing_add: the two's complement sum of the bit patterns, and
\* whether the operands share a sign that the sum does not have.
OverflowingAddI64(x, y) ==
    LET s == SubSeq(AddLimbs(x, y, 1, 0), 1, U64Limbs)
    IN  [val |-> s,
         overflow |-> IsNegative(x) = IsNegative(y) /\ IsNegative(s) # IsNegative(x)]

\* AddI64 as i64::saturating_add.
AddI64Saturating(x, y, checks) ==
    LET r == OverflowingAddI64(x, y)
    IN  [val |-> IF ~r.overflow THEN r.val
                 ELSE IF IsNegative(x)
                      THEN <<0, 0, 0, HalfLimb>>
                      ELSE <<LimbBase - 1, LimbBase - 1, LimbBase - 1, HalfLimb - 1>>,
         panic |-> FALSE, overflow |-> r.overflow]

\* `x + y` on i64 as the build compiles it.
AddI64(x, y, checks) ==
    LET r == OverflowingAddI64(x, y)
    IN  [val |-> r.val, panic |-> checks /\ r.overflow, overflow |-> r.overflow]

\* Lines 25-27: add_numbers is the one expression a + b.
CallAdd(c, x, y) ==
    /\ pc[c] = "idle"
    /\ call' = [call EXCEPT ![c] = AddCall(x, y)]
    /\ LET sum == AddI64(x, y, overflow_checks)
       IN  IF sum.panic
           THEN /\ pc' = [pc EXCEPT ![c] = "panicked"]
                /\ UNCHANGED ret
           ELSE /\ pc' = [pc EXCEPT ![c] = "done"]
                /\ ret' = [ret EXCEPT ![c] = sum.val]
    /\ UNCHANGED <<overflow_checks, a, b, range, iters, ovf, hist>>

---------------------------------------------------------------------------
(* greet *)

\* Characters are Unicode code points.
LBrace == 123
RBrace == 125
Crab == 129408

\* The format string of line 3, "Hello, {}! " followed by the crab.
Template == <<72, 101, 108, 108, 111, 44, 32, LBrace, RBrace, 33, 32, Crab>>

Lit(text) == [kind |-> "lit", text |-> text]
Arg == [kind |-> "arg", text |-> <<>>]

RECURSIVE ParseTemplate(_, _, _)
\* What format! makes of its format string at compile time: the literal
\* pieces and the places of the arguments ("{{" and "}}" stand for one brace).
ParseTemplate(t, k, lit) ==
    IF k > Len(t) THEN <<Lit(lit)>>
    ELSE IF k < Len(t) /\ t[k] = LBrace /\ t[k + 1] = LBrace
         THEN ParseTemplate(t, k + 2, Append(lit, LBrace))
    ELSE IF k < Len(t) /\ t[k] = RBrace /\ t[k + 1] = RBrace
         THEN ParseTemplate(t, k + 2, Append(lit, RBrace))
    ELSE IF k < Len(t) /\ t[k] = LBrace /\ t[k + 1] = RBrace
         THEN <<Lit(lit), Arg>> \o ParseTemplate(t, k + 2, <<>>)
    ELSE ParseTemplate(t, k + 1, Append(lit, t[k]))

RECURSIVE WriteStr(_, _, _)
\* Formatter::write_str: the characters of s from the k-th on, pushed on out.
WriteStr(out, s, k) ==
    IF k > Len(s) THEN out ELSE WriteStr(Append(out, s[k]), s, k + 1)

RECURSIVE WriteEscaped(_, _, _)
\* The characters of s from the k-th on, a line feed written as \n.
WriteEscaped(out, s, k) ==
    IF k > Len(s) THEN out
    ELSE WriteEscaped(IF s[k] = 10 THEN out \o <<92, 110>> ELSE Append(out, s[k]), s, k + 1)

\* Display as <str as Debug>::fmt, what `{:?}` would call: the string quoted
\* and escaped.
DisplayDebug(out, s) == Append(WriteEscaped(Append(out, 34), s, 1), 34)

\* <str as Display>::fmt under `{}` (no width, no precision): the string is
\* written as it is.
Display(out, s) == WriteStr(out, s, 1)

RECURSIVE Format(_, _, _, _)
\* alloc::fmt::format: the pieces written in order, each argument place
\* taking the next argument.
Format(out, pieces, args, k) ==
    IF k > Len(pieces) THEN out
    ELSE IF pieces[k].kind = "arg"
         THEN Format(Display(out, Head(args)), pieces, Tail(args), k + 1)
         ELSE Format(WriteStr(out, pieces[k].text, 1), pieces, args, k + 1)

\* Lines 2-4.
greet(name) == Format(<<>>, ParseTemplate(Template, 1, <<>>), <<name>>, 1)

\* CallGreet with a static flag: a greeting after the first recorded call
\* ends with a second exclamation mark in the name's place.
CallGreetStatic(c, name) ==
    /\ pc[c] = "idle"
    /\ call' = [call EXCEPT ![c] = GreetCall(name)]
    /\ pc' = [pc EXCEPT ![c] = "done"]
    /\ ret' = [ret EXCEPT ![c] = IF hist = {} THEN greet(name) ELSE greet(Append(name, 33))]
    /\ UNCHANGED <<overflow_checks, a, b, range, iters, ovf, hist>>

CallGreet(c, name) ==
    /\ pc[c] = "idle"
    /\ call' = [call EXCEPT ![c] = GreetCall(name)]
    /\ pc' = [pc EXCEPT ![c] = "done"]
    /\ ret' = [ret EXCEPT ![c] = greet(name)]
    /\ UNCHANGED <<overflow_checks, a, b, range, iters, ovf, hist>>

---------------------------------------------------------------------------
(* The inputs the callers draw from *)

\* Every index of the (narrowed) index type.
FibInputs == 0 .. MaxIndex

\* The i64 of a small integer, -LimbBase < k < LimbBase.
I64Small(k) ==
    IF k >= 0 THEN <<k, 0, 0, 0>>
    ELSE <<k + LimbBase, LimbBase - 1, LimbBase - 1, LimbBase - 1>>

I64Min == <<0, 0, 0, HalfLimb>>
I64Max == <<LimbBase - 1, LimbBase - 1, LimbBase - 1, HalfLimb - 1>>

AddInputs ==
    {I64Small(k) : k \in {0, 1, 2, 3, 5, -1, -5}}
        \cup {I64Min, I64Max,
              <<1, 0, 0, HalfLimb>>,                                \* i64::MIN + 1
              <<LimbBase - 2, LimbBase - 1, LimbBase - 1, HalfLimb - 1>>,  \* i64::MAX - 1
              <<LimbBase - 1, LimbBase - 1, 0, 0>>,                 \* 2^32 - 1
              <<0, 0, 0, HalfLimb \div 2>>,                         \* 2^62
              <<0, 0, 0, HalfLimb + HalfLimb \div 2>>}              \* -2^62

Alphabet == {97, LBrace, RBrace, 10}
World == <<87, 111, 114, 108, 100>>

SeqsUpTo(S, m) == UNION {[1 .. k -> S] : k \in 0 .. m}

Names == SeqsUpTo(Alphabet, MaxNameLen) \cup {World}

---------------------------------------------------------------------------
(* Specifications *)

\* One caller, every input.
Next ==
    \/ \E n \in FibInputs : CallFib(1, n)
    \/ FibIter(1)
    \/ FibExit(1)
    \/ \E x, y \in AddInputs : CallAdd(1, x, y)
    \/ \E name \in Names : CallGreet(1, name)
    \/ Return(1, FALSE)

Spec == Init /\ [][Next]_vars

\* NumCallers callers whose steps interleave, small inputs.
ConcFibInputs == 0 .. MaxConcIndex
ConcAddInputs == {I64Small(2), I64Small(-1), I64Min}
ConcNames == {<<>>, World}

NextConc ==
    \E c \in Callers :
        \/ \E n \in ConcFibInputs : CallFib(c, n)
        \/ FibIter(c)
        \/ FibExit(c)
        \/ \E x, y \in ConcAddInputs : CallAdd(c, x, y)
        \/ \E name \in ConcNames : CallGreet(c, name)
        \/ Return(c, FALSE)

SpecConc == Init /\ [][NextConc]_vars

\* One caller whose finished calls are recorded in hist, few inputs.
HistFibInputs == {0, 3, 94}
HistAddInputs == {I64Small(-1), I64Min}
HistNames == {<<>>, World}

NextHist ==
    \/ \E n \in HistFibInputs : CallFib(1, n)
    \/ FibIter(1)
    \/ FibExit(1)
    \/ \E x, y \in HistAddInputs : CallAdd(1, x, y)
    \/ \E name \in HistNames : CallGreet(1, name)
    \/ Return(1, TRUE)

SpecHist == Init /\ [][NextHist]_vars

\* A call, once made, runs to its end.
FairSpec == Spec /\ WF_vars(Next)

---------------------------------------------------------------------------
(* Exact naturals, to state what the functions are to return *)

\* x lengthened to m limbs by most significant zeros.
Pad(x, m) == x \o [k \in 1 .. (m - Len(x)) |-> 0]

RECURSIVE Norm(_)
\* x without its most significant zero limbs.
Norm(x) ==
    IF x = <<>> \/ x[Len(x)] # 0 THEN x ELSE Norm(SubSeq(x, 1, Len(x) - 1))

Longer(x, y) == IF Len(x) >= Len(y) THEN Len(x) ELSE Len(y)

\* The exact sum of two exact naturals.
BigAdd(x, y) == Norm(AddLimbs(Pad(x, Longer(x, y)), Pad(y, Longer(x, y)), 1, 0))

\* s, which ends with F(j-1), F(j), followed by F(j+1).
FibExtend(s) == Append(s, BigAdd(s[Len(s)], s[Len(s) - 1]))

RECURSIVE FibSeq(_, _)
\* s followed by the next m Fibonacci numbers, by halves; the first half is
\* computed (its length taken) before the second is begun, which keeps the
\* evaluation shallow.
FibSeq(s, m) ==
    IF m = 0 THEN s
    ELSE IF m = 1 THEN FibExtend(s)
    ELSE LET half == FibSeq(s, m \div 2)
         IN  IF Len(half) > 0 THEN FibSeq(half, m - m \div 2) ELSE half

\* <<F(0), ..., F(MaxIndex + 1)>> by F(0) = 0, F(1) = 1, F(j) = F(j-1) + F(j-2).
FibTable == FibSeq(<< <<>>, <<1>> >>, MaxIndex)

\* The n-th Fibonacci number.
ExactFib(n) == FibTable[n + 1]

\* Whether an exact natural is at most 2^64 - 1.
FitsU64(x) == Len(x) <= U64Limbs

\* An exact natural modulo 2^64, as a u64.
Low64(x) == SubSeq(Pad(x, U64Limbs), 1, U64Limbs)

Finished(c) == pc[c] \in {"done", "panicked"}
FibOver(c) == call[c].op = "fib" /\ Finished(c)

---------------------------------------------------------------------------
(* C1 *)

\* C1: for every index n <= 93 calculate_fibonacci(n) returns the n-th
\* Fibonacci number (F(0) = 0, F(1) = 1, F(n) = F(n-1) + F(n-2)), which fits
\* 64 bits; calculate_fibonacci(0) = 0, (1) = 1, (10) = 55, (20) = 6765.
C1_FibValue ==
    \A c \in Callers :
        (FibOver(c) /\ call[c].n <= 93) =>
            /\ pc[c] = "done"
            /\ FitsU64(ExactFib(call[c].n))
            /\ ret[c] = Low64(ExactFib(call[c].n))
            /\ call[c].n >= 2 =>
                 Norm(ret[c]) = BigAdd(ExactFib(call[c].n - 1), ExactFib(call[c].n - 2))
            /\ call[c].n = 0 => ret[c] = <<0, 0, 0, 0>>
            /\ call[c].n = 1 => ret[c] = <<1, 0, 0, 0>>
            /\ call[c].n = 10 => ret[c] = <<55, 0, 0, 0>>
            /\ call[c].n = 20 => ret[c] = <<6765, 0, 0, 0>>

\* calculate_fibonacci(93) has returned in the build that checks overflow.
C1_Witness ==
    /\ overflow_checks
    /\ pc[1] = "done" /\ call[1] = FibCall(93)
    /\ ret[1] = Low64(ExactFib(93))

---------------------------------------------------------------------------
(* C2 *)

\* C2 as stated: for n > 93 calculate_fibonacci returns F(n) modulo 2^64 and
\* never panics.
C2_AlwaysWraps ==
    \A c \in Callers :
        (FibOver(c) /\ call[c].n > 93) =>
            pc[c] = "done" /\ ret[c] = Low64(ExactFib(call[c].n))

\* C2 as amended: for n > 93 the true value does not fit 64 bits and
\* calculate_fibonacci returns F(n) modulo 2^64 when the build does not check
\* overflow, and panics, returning nothing, when it does.
C2_WrapsOrPanics ==
    \A c \in Callers :
        (FibOver(c) /\ call[c].n > 93) =>
            /\ ~FitsU64(ExactFib(call[c].n))
            /\ IF overflow_checks
               THEN pc[c] = "panicked" /\ ret[c] = <<>>
               ELSE pc[c] = "done" /\ ret[c] = Low64(ExactFib(call[c].n))

\* calculate_fibonacci of the largest index has returned a wrapped value.
C2_Witness ==
    /\ ~overflow_checks
    /\ pc[1] = "done" /\ call[1] = FibCall(MaxIndex)
    /\ Norm(ret[1]) # ExactFib(MaxIndex)

---------------------------------------------------------------------------
(* C3 *)

\* The addition the loop of caller c is about to perform, and its exact sum.
AboutToAdd(c) == pc[c] = "loop" /\ ~RangeIsEmpty(range[c])
ExactSum(c) == BigAdd(Norm(a[c]), Norm(b[c]))

\* C3: the overflow boundary is n = 93.  No a + b of an iteration computing
\* F(2) .. F(93) exceeds 2^64 - 1; the one computing F(94) does, and is the
\* first that overflows; F(n) exceeds 2^64 - 1 exactly for n > 93, and every
\* call with n > 93 meets an overflowing addition.
C3_OverflowBoundary ==
    /\ \A n \in FibInputs : FitsU64(ExactFib(n)) <=> n <= 93
    /\ \A c \in Callers :
        /\ (AboutToAdd(c) /\ range[c].start <= 93) => FitsU64(ExactSum(c))
        /\ (AboutToAdd(c) /\ range[c].start = 94) => ~FitsU64(ExactSum(c))
        /\ call[c].op = "fib" => ovf[c] \in {0, 94}
        /\ FibOver(c) => (ovf[c] = 94 <=> call[c].n > 93)

\* A call with n > 93 is over and its first overflow was met computing F(94).
C3_Witness ==
    /\ FibOver(1) /\ call[1].n = 95 /\ ovf[1] = 94 /\ ~overflow_checks

---------------------------------------------------------------------------
(* C9 *)

\* The loop bodies a call with index n >= 2 runs when nothing panics.
IterationsOf(n) == n - 1

\* C9 as stated: for n >= 2 the loop runs exactly n - 1 iterations and the
\* final b is returned.
C9_AlwaysAllIterations ==
    \A c \in Callers :
        (FibOver(c) /\ call[c].n >= 2) =>
            pc[c] = "done" /\ iters[c] = IterationsOf(call[c].n) /\ ret[c] = b[c]

\* C9 as amended: for n >= 2 the loop starts from (0, 1) and after k
\* iterations the pair is (F(k), F(k+1)) modulo 2^64; it runs n - 1
\* iterations and returns the final b, unless the build checks overflow and
\* n > 93, when it panics in its 93rd iteration (the one computing F(94))
\* with the pair still (F(92), F(93)).  For n = 0 and n = 1 the result is
\* returned with no iteration.
C9_LoopPair ==
    \A c \in Callers :
        /\ pc[c] = "loop" =>
            /\ call[c].n >= 2
            /\ iters[c] <= IterationsOf(call[c].n)
            /\ range[c].end = call[c].n
            /\ range[c].start = (IF range[c].exhausted THEN iters[c] + 1 ELSE iters[c] + 2)
            /\ range[c].exhausted => iters[c] = IterationsOf(call[c].n)
            /\ a[c] = Low64(ExactFib(iters[c]))
            /\ b[c] = Low64(ExactFib(iters[c] + 1))
        /\ (call[c].op = "fib" /\ pc[c] = "done" /\ call[c].n >= 2) =>
            /\ iters[c] = IterationsOf(call[c].n)
            /\ a[c] = Low64(ExactFib(call[c].n - 1))
            /\ b[c] = Low64(ExactFib(call[c].n))
            /\ ret[c] = b[c]
        /\ (call[c].op = "fib" /\ pc[c] = "done" /\ call[c].n < 2) =>
            iters[c] = 0 /\ ret[c] = U64(call[c].n)
        /\ (call[c].op = "fib" /\ pc[c] = "panicked") =>
            /\ overflow_checks /\ call[c].n > 93
            /\ iters[c] = 93
            /\ a[c] = Low64(ExactFib(92))
            /\ b[c] = Low64(ExactFib(93))

\* A loop of more than one iteration has ended and returned its b.
C9_Witness ==
    /\ pc[1] = "done" /\ call[1] = FibCall(20)
    /\ iters[1] = 19 /\ ret[1] = b[1] /\ a[1] = <<4181, 0, 0, 0>>

---------------------------------------------------------------------------
(* Exact integers for add_numbers: three limbs and a signed top limb *)

\* The integer an i64 bit pattern stands for.
Signed(x) == [x EXCEPT ![U64Limbs] = IF @ >= HalfLimb THEN @ - LimbBase ELSE @]

\* The exact sum of two such integers; its top limb is not reduced.
MathSum(x, y) ==
    LET low == AddLimbs(SubSeq(x, 1, U64Limbs - 1), SubSeq(y, 1, U64Limbs - 1), 1, 0)
    IN  SubSeq(low, 1, U64Limbs - 1)
            \o <<x[U64Limbs] + y[U64Limbs] + low[U64Limbs]>>

\* Whether an exact sum lies in [-2^63, 2^63 - 1].
InI64Range(v) == -HalfLimb <= v[U64Limbs] /\ v[U64Limbs] < HalfLimb

\* An exact sum reduced modulo 2^64 into [-2^63, 2^63 - 1].
WrapI64(v) ==
    [v EXCEPT ![U64Limbs] = ((@ + HalfLimb + LimbBase) % LimbBase) - HalfLimb]

AddOver(c) == call[c].op = "add" /\ Finished(c)
SumOf(c) == MathSum(Signed(call[c].x), Signed(call[c].y))

---------------------------------------------------------------------------
(* C4 *)

\* C4: when the sum of a and b lies in [-2^63, 2^63 - 1], add_numbers(a, b)
\* returns exactly a + b; add_numbers(2, 3) = 5 and add_numbers(-5, 5) = 0.
C4_AddExact ==
    \A c \in Callers :
        (AddOver(c) /\ InI64Range(SumOf(c))) =>
            /\ pc[c] = "done"
            /\ Signed(ret[c]) = SumOf(c)
            /\ call[c] = AddCall(I64Small(2), I64Small(3)) => ret[c] = <<5, 0, 0, 0>>
            /\ call[c] = AddCall(I64Small(-5), I64Small(5)) => ret[c] = <<0, 0, 0, 0>>

\* add_numbers(-5, 5) has returned 0 in the build that checks overflow.
C4_Witness ==
    /\ overflow_checks
    /\ pc[1] = "done" /\ call[1] = AddCall(I64Small(-5), I64Small(5))
    /\ ret[1] = I64Small(0)

---------------------------------------------------------------------------
(* C5 *)

\* C5 as stated: when the sum lies outside [-2^63, 2^63 - 1], add_numbers
\* returns it reduced modulo 2^64 and never panics.
C5_AlwaysWraps ==
    \A c \in Callers :
        (AddOver(c) /\ ~InI64Range(SumOf(c))) =>
            pc[c] = "done" /\ Signed(ret[c]) = WrapI64(SumOf(c))

\* C5 as amended: when the sum lies outside [-2^63, 2^63 - 1], add_numbers
\* returns it reduced modulo 2^64 into that range when the build does not
\* check overflow (add_numbers(i64::MIN, -1) = i64::MAX), and panics,
\* returning nothing, when it does; either way with no choice left to a run.
C5_WrapsOrPanics ==
    \A c \in Callers :
        (AddOver(c) /\ ~InI64Range(SumOf(c))) =>
            IF overflow_checks
            THEN pc[c] = "panicked" /\ ret[c] = <<>>
            ELSE /\ pc[c] = "done"
                 /\ Signed(ret[c]) = WrapI64(SumOf(c))
                 /\ call[c] = AddCall(I64Min, I64Small(-1)) => ret[c] = I64Max

\* add_numbers(i64::MIN, -1) has returned i64::MAX.
C5_Witness ==
    /\ ~overflow_checks
    /\ pc[1] = "done" /\ call[1] = AddCall(I64Min, I64Small(-1))
    /\ ret[1] = I64Max

---------------------------------------------------------------------------
(* C6 *)

\* "Hello, " and "! " followed by the crab.
HelloPrefix == <<72, 101, 108, 108, 111, 44, 32>>
CrabSuffix == <<33, 32, Crab>>

GreetOver(c) == call[c].op = "greet" /\ Finished(c)

\* C6: for every name, the empty one and those with braces or control
\* characters among them, greet(name) never fails and returns "Hello, ",
\* the name as it is, and "! " with the crab; greet("World") and greet("")
\* are the two strings of the spec.
C6_GreetVerbatim ==
    \A c \in Callers :
        GreetOver(c) =>
            /\ pc[c] = "done"
            /\ ret[c] = HelloPrefix \o call[c].name \o CrabSuffix
            /\ call[c].name = World =>
                 ret[c] = <<72, 101, 108, 108, 111, 44, 32, 87, 111, 114, 108, 100,
                            33, 32, 129408>>
            /\ call[c].name = <<>> =>
                 ret[c] = <<72, 101, 108, 108, 111, 44, 32, 33, 32, 129408>>

\* greet of the name "{}" has returned it as it is.
C6_Witness ==
    /\ pc[1] = "done" /\ call[1] = GreetCall(<<LBrace, RBrace>>)
    /\ ret[1] = <<72, 101, 108, 108, 111, 44, 32, 123, 125, 33, 32, 129408>>

---------------------------------------------------------------------------
(* C7 *)

RECURSIVE FibLoopAlone(_, _, _, _)
\* The loop of lines 14-18 run from (x, y) and range r with no other caller.
FibLoopAlone(x, y, r, checks) ==
    IF RangeIsEmpty(r) THEN [panicked |-> FALSE, val |-> y]
    ELSE LET temp == AddU64(x, y, checks)
         IN  IF temp.panic THEN [panicked |-> TRUE, val |-> <<>>]
             ELSE FibLoopAlone(y, temp.val, RangeNext(r).rest, checks)

\* The outcome of a call that runs alone from start to end.
RunAlone(cl, checks) ==
    IF cl.op = "fib"
    THEN IF cl.n < 2 THEN [panicked |-> FALSE, val |-> U64(cl.n)]
         ELSE FibLoopAlone(U64(0), U64(1), RangeNew(cl.n), checks)
    ELSE IF cl.op = "add"
    THEN LET sum == AddI64(cl.x, cl.y, checks)
         IN  [panicked |-> sum.panic, val |-> IF sum.panic THEN <<>> ELSE sum.val]
    ELSE [panicked |-> FALSE, val |-> greet(cl.name)]

\* All that the model keeps of caller d's invocation.
Frame(d) == <<pc[d], call[d], a[d], b[d], range[d], iters[d], ovf[d], ret[d]>>

\* C7: with the steps of the callers interleaved in any way, every step
\* changes the frame of one caller only, and every invocation ends with the
\* outcome it has when it runs alone.
C7_ConcurrentAsAlone ==
    /\ [](\A c \in Callers : Finished(c) => Outcome(c) = RunAlone(call[c], overflow_checks))
    /\ [][\E c \in Callers : \A d \in Callers \ {c} : Frame(d)' = Frame(d)]_vars

\* Caller 2 has finished calculate_fibonacci(5) while caller 1 is in the
\* middle of the loop of its own.
C7_Witness ==
    /\ pc[1] = "loop" /\ call[1] = FibCall(5) /\ iters[1] = 2
    /\ pc[2] = "done" /\ call[2] = FibCall(5) /\ ret[2] = <<5, 0, 0, 0>>

---------------------------------------------------------------------------
(* C8 *)

EmptyFrame == <<"idle", NoCall, <<>>, <<>>, NoRange, 0, 0, <<>>>>

\* C8: after any sequence of earlier calls, two calls with equal arguments
\* have equal outcomes, the one in progress included, and a call that is
\* over leaves nothing of its frame behind.
C8_Stateless ==
    /\ \A h1, h2 \in hist : h1[1] = h2[1] => h1[2] = h2[2]
    /\ \A c \in Callers : \A h \in hist :
           (Finished(c) /\ h[1] = call[c]) => h[2] = Outcome(c)
    /\ \A c \in Callers : pc[c] = "idle" => Frame(c) = EmptyFrame

\* greet("World") has returned a second time, after calls of the other two
\* functions.
C8_Witness ==
    /\ pc[1] = "done" /\ call[1] = GreetCall(World)
    /\ \E h \in hist : h[1] = GreetCall(World)
    /\ \E h \in hist : h[1] = FibCall(94)
    /\ \E h \in hist : h[1].op = "add" /\ h[2].panicked = overflow_checks

---------------------------------------------------------------------------
(* C10 *)

\* C10 as stated: every call of calculate_fibonacci ends by returning.
C10_AlwaysReturns ==
    \A c \in Callers : call[c].op = "fib" => pc[c] # "panicked"

\* C10 as amended: calculate_fibonacci terminates for every index of its
\* type, the largest included.  The counter of the range never decreases and
\* never passes n, the loop runs at most n - 1 iterations, and the call ends:
\* it returns, or it panics when the build checks overflow and n > 93.
C10_Terminates ==
    /\ [](\A c \in Callers :
            /\ pc[c] = "loop" =>
                 /\ iters[c] <= call[c].n - 1
                 /\ range[c].start <= call[c].n
            /\ (call[c].op = "fib" /\ pc[c] = "panicked") =>
                 (overflow_checks /\ call[c].n > 93))
    /\ [][\A c \in Callers :
            (pc[c] = "loop" /\ pc'[c] = "loop") => range'[c].start >= range[c].start]_vars
    /\ \A c \in Callers : (pc[c] = "loop") ~> Finished(c)

\* calculate_fibonacci of the largest index of the type has returned.
C10_Witness ==
    /\ pc[1] = "done" /\ call[1] = FibCall(MaxIndex)
    /\ iters[1] = MaxIndex - 1 /\ range[1].start = MaxIndex /\ range[1].exhausted

============================================================================
